---- MODULE Spec2Model ----
(***************************************************************************)
(* Model of src/src/mine.rs: the parallel nonce search (find_hash_par),    *)
(* the bus selection (find_bus) and the nonce-range partition.             *)
(*                                                                         *)
(* The 64-bit nonce type is scaled down: NonceMax plays u64::MAX, and all  *)
(* nonce arithmetic is taken modulo NonceMax + 1.                          *)
(***************************************************************************)
EXTENDS Integers, Sequences, FiniteSets, TLC

\* ------------------------------------------------------------------ bounds
NonceMax == 4          \* the scaled u64::MAX of the search model
MaxThreads == 2        \* largest num_cpus::get() explored
MaxDifficulty == 2     \* largest difficulty a hash can have
MaxCutoff == 1         \* largest cutoff_time explored
MaxBits == 5           \* widest nonce type of the range partition alone
MaxCores == 8          \* largest thread count of the range partition alone
BusCount == 3          \* the scaled BUS_COUNT
MaxReward == 2         \* largest bus.rewards explored
TimeBits == 8          \* width of the scaled i64 and u64 of the round loop
MaxTime == 2           \* largest last_hash_at and last_reset_at explored

VARIABLES
    \* inputs of find_hash_par and its environment
    challenge,              \* proof.challenge, as the table nonce -> hash result
    cutoff_time,            \* cutoff_time
    min_difficulty,         \* min_difficulty
    num_threads,            \* num_cpus::get()
    core_ids,               \* does core_affinity::get_core_ids() return Some
    elapsed,                \* start_time.elapsed().as_secs()
    \* shared state of one search
    nonce_ranges,
    global_best_difficulty,
    global_total_hashes,
    \* per-worker state
    w_pc, w_nonce, w_best_nonce, w_best_difficulty, w_best_hash,
    \* history of the workers: nonces each worker hashed, and the number of
    \* attempts started after the stop condition became true
    hashed, late_attempts,
    \* the joining thread
    m_pc, join_idx, best_nonce, best_difficulty, best_hash, solution,
    \* difficulty selected by the previous search over the same inputs
    prev_difficulty,
    \* the range partition on its own: the type's maximum, the thread count,
    \* and the ranges collected so far
    r_max, r_n, r_ranges,
    \* find_bus
    b_pc, fetch_ok, accounts, pending, top_bus, bus_result,
    \* mine: the arguments and the machine
    mine_pc, args_cores, args_buffer_time, cpus, warned,
    \* the round: proof and config, the cutoff and the clock get_cutoff saw,
    \* the number of workers find_hash_par spawned
    last_hash_at, last_reset_at, cutoff_clock, round_cutoff, spawned,
    \* the result of should_reset and the clock it saw, the instructions
    reset_clock, reset_due, ixs, compute_budget,
    \* what became of the submission and of the notification
    submit_result, notify_result

searchVars == <<challenge, cutoff_time, min_difficulty, num_threads, core_ids,
                elapsed, nonce_ranges, global_best_difficulty,
                global_total_hashes, w_pc, w_nonce, w_best_nonce,
                w_best_difficulty, w_best_hash, hashed, late_attempts,
                m_pc, join_idx, best_nonce, best_difficulty, best_hash,
                solution, prev_difficulty>>

rangeVars == <<r_max, r_n, r_ranges>>

busVars == <<b_pc, fetch_ok, accounts, pending, top_bus, bus_result>>

mineVars == <<mine_pc, args_cores, args_buffer_time, cpus, warned,
              last_hash_at, last_reset_at, cutoff_clock, round_cutoff, spawned,
              reset_clock, reset_due, ixs, compute_budget, submit_result,
              notify_result>>

vars == <<searchVars, rangeVars, busVars, mineVars>>

\* ------------------------------------------------------------- hash values
Nonces == 0..NonceMax
NonceSpace == NonceMax + 1
NoSolution == -1
Difficulties == 0..MaxDifficulty
NoPrev == -1

\* Hash::default()
DefaultHash == [nonce |-> -1, difficulty |-> 0]

\* drillx::hash_with_memory(&mut memory, &proof.challenge, &nonce.to_le_bytes())
hash_with_memory(ch, n) ==
    IF ch[n] = NoSolution
    THEN [ok |-> FALSE, hx |-> DefaultHash]
    ELSE [ok |-> TRUE, hx |-> [nonce |-> n, difficulty |-> ch[n]]]

\* hx.difficulty()
difficulty_of(hx) == hx.difficulty

\* The challenges explored: every nonce hashes to difficulty 0, except for at
\* most two nonces a and b, which fail to hash or have any difficulty.
Challenges ==
    {[x \in Nonces |-> IF x = a THEN ra ELSE IF x = b THEN rb ELSE 0] :
        a \in Nonces, b \in Nonces,
        ra \in {NoSolution} \cup Difficulties,
        rb \in {NoSolution} \cup Difficulties}

\* ----------------------------------------------------------- nonce ranges
\* NonceRange with an inclusive upper end.
NonceRangeInclusive(max, n, i) ==
    LET nonce_step == max \div n
    IN  [start |-> (nonce_step * i) % (max + 1),
         end   |-> (nonce_step * (i + 1) + 1) % (max + 1)]

\* let nonce_step = u64::MAX / num_threads as u64;
\* the closure |i| (nonce_step * i as u64, nonce_step * (i as u64 + 1))
NonceRange(max, n, i) ==
    LET nonce_step == max \div n
    IN  [start |-> (nonce_step * i) % (max + 1),
         end   |-> (nonce_step * (i + 1)) % (max + 1)]

\* (0..num_threads).map(..).collect()
NonceRanges(max, n) == [i \in 0..(n - 1) |-> NonceRange(max, n, i)]

\* The nonces a worker visits in [start, end): while nonce < end_nonce
RangeSet(r) == r.start..(r.end - 1)

Workers == 0..(num_threads - 1)

\* ------------------------------------------------------------ the search
Running == {"spawned", "hash", "check"}
Finished == {"exhausted", "stopped", "panicked"}

\* LoopHead leaving the loop one nonce early.
LoopHeadOffByOne(n, end) == IF n + 1 < end THEN "hash" ELSE "exhausted"

\* while nonce < end_nonce
LoopHead(n, end) == IF n < end THEN "hash" ELSE "exhausted"

\* RaiseGlobal leaving the shared value alone.
RaiseGlobalNever(g, d) == g

\* RaiseGlobal storing without the comparison.
RaiseGlobalStore(g, d) == d

\* if best_difficulty > *best_diff_lock { *best_diff_lock = best_difficulty; }
RaiseGlobal(g, d) == IF d > g THEN d ELSE g

\* ShouldStop with either condition sufficing.
ShouldStopEither(el, cutoff, g, min) == el >= cutoff \/ g >= min

\* start_time.elapsed().as_secs() >= cutoff_time && *best_diff_lock >= min_difficulty
\* Both operands only ever grow, so reading them in one step gives the same
\* outcomes as the two separate reads of the code.
ShouldStop(el, cutoff, g, min) == el >= cutoff /\ g >= min

\* The deadline has passed and some worker has met the bar.
StopSignal ==
    elapsed >= cutoff_time /\ global_best_difficulty >= min_difficulty

NoBus == [rewards |-> 0, address |-> [bus |-> -1]]

IdleRanges == r_max = 0 /\ r_n = 0 /\ r_ranges = <<>>

IdleBus ==
    /\ b_pc = "idle"
    /\ fetch_ok = FALSE
    /\ accounts = <<>>
    /\ pending = {}
    /\ top_bus = NoBus
    /\ bus_result = NoBus.address

NoClock == -1

IdleMine ==
    /\ mine_pc = "idle"
    /\ args_cores = 0
    /\ args_buffer_time = 0
    /\ cpus = 0
    /\ warned = FALSE
    /\ last_hash_at = 0
    /\ last_reset_at = 0
    /\ cutoff_clock = NoClock
    /\ round_cutoff = 0
    /\ spawned = 0
    /\ reset_clock = NoClock
    /\ reset_due = FALSE
    /\ ixs = <<>>
    /\ compute_budget = 0
    /\ submit_result = "none"
    /\ notify_result = "none"

\* The state at the head of find_hash_par for given inputs.
StartSearch(ch, cutoff, min, n, ids) ==
    /\ challenge = ch
    /\ cutoff_time = cutoff
    /\ min_difficulty = min
    /\ num_threads = n
    /\ core_ids = ids
    /\ elapsed = 0
    /\ nonce_ranges = NonceRanges(NonceMax, n)
    /\ global_best_difficulty = 0
    /\ global_total_hashes = 0
    /\ w_pc = [w \in 0..(n - 1) |-> "spawned"]
    /\ w_nonce = [w \in 0..(n - 1) |-> NonceRange(NonceMax, n, w).start]
    /\ w_best_nonce = [w \in 0..(n - 1) |-> NonceRange(NonceMax, n, w).start]
    /\ w_best_difficulty = [w \in 0..(n - 1) |-> 0]
    /\ w_best_hash = [w \in 0..(n - 1) |-> DefaultHash]
    /\ hashed = [w \in 0..(n - 1) |-> {}]
    /\ late_attempts = [w \in 0..(n - 1) |-> 0]
    /\ m_pc = "join"
    /\ join_idx = 0
    /\ best_nonce = 0
    /\ best_difficulty = 0
    /\ best_hash = DefaultHash
    /\ solution = [d |-> DefaultHash, n |-> 0]

InitSearch ==
    /\ \E ch \in Challenges, cutoff \in 0..MaxCutoff, min \in Difficulties,
          n \in 1..MaxThreads, ids \in BOOLEAN :
              StartSearch(ch, cutoff, min, n, ids)
    /\ prev_difficulty = NoPrev

IdleSearch ==
    /\ challenge = <<>>
    /\ cutoff_time = 0
    /\ min_difficulty = 0
    /\ num_threads = 0
    /\ core_ids = FALSE
    /\ elapsed = 0
    /\ nonce_ranges = <<>>
    /\ global_best_difficulty = 0
    /\ global_total_hashes = 0
    /\ w_pc = <<>>
    /\ w_nonce = <<>>
    /\ w_best_nonce = <<>>
    /\ w_best_difficulty = <<>>
    /\ w_best_hash = <<>>
    /\ hashed = <<>>
    /\ late_attempts = <<>>
    /\ m_pc = "idle"
    /\ join_idx = 0
    /\ best_nonce = 0
    /\ best_difficulty = 0
    /\ best_hash = DefaultHash
    /\ solution = [d |-> DefaultHash, n |-> 0]
    /\ prev_difficulty = NoPrev

inputVars == <<challenge, cutoff_time, min_difficulty, num_threads, core_ids,
               nonce_ranges, prev_difficulty, rangeVars, busVars, mineVars>>
mainVars == <<m_pc, join_idx, best_nonce, best_difficulty, best_hash, solution>>
localVars == <<w_nonce, w_best_nonce, w_best_difficulty, w_best_hash>>

\* Pin entering the loop at the termination check.
PinCheckFirst(w) ==
    /\ w_pc[w] = "spawned"
    /\ w_pc' = [w_pc EXCEPT ![w] = IF core_ids THEN "check" ELSE "panicked"]
    /\ UNCHANGED <<inputVars, mainVars, localVars, elapsed,
                   global_best_difficulty, global_total_hashes, hashed,
                   late_attempts>>

\* The thread body before the loop: core_affinity::get_core_ids().unwrap()
\* panics when no core ids are available; a failed or skipped pinning is
\* ignored.
Pin(w) ==
    /\ w_pc[w] = "spawned"
    /\ w_pc' = [w_pc EXCEPT ![w] =
                   IF core_ids
                   THEN LoopHead(w_nonce[w], nonce_ranges[w].end)
                   ELSE "panicked"]
    /\ UNCHANGED <<inputVars, mainVars, localVars, elapsed,
                   global_best_difficulty, global_total_hashes, hashed,
                   late_attempts>>

\* One nonce attempt: hash, local best, global best under the write lock,
\* and the shared hash counter.
Hash(w) ==
    /\ w_pc[w] = "hash"
    /\ LET r == hash_with_memory(challenge, w_nonce[w])
           better == r.ok /\ difficulty_of(r.hx) > w_best_difficulty[w]
       IN  /\ w_best_nonce' = [w_best_nonce EXCEPT ![w] =
                                 IF better THEN w_nonce[w] ELSE @]
           /\ w_best_difficulty' = [w_best_difficulty EXCEPT ![w] =
                                 IF better THEN difficulty_of(r.hx) ELSE @]
           /\ w_best_hash' = [w_best_hash EXCEPT ![w] =
                                 IF better THEN r.hx ELSE @]
           /\ global_best_difficulty' =
                 IF better
                 THEN RaiseGlobal(global_best_difficulty, difficulty_of(r.hx))
                 ELSE global_best_difficulty
    /\ global_total_hashes' = global_total_hashes + 1
    /\ hashed' = [hashed EXCEPT ![w] = @ \cup {w_nonce[w]}]
    /\ late_attempts' = [late_attempts EXCEPT ![w] =
                            IF StopSignal THEN @ + 1 ELSE @]
    /\ w_pc' = [w_pc EXCEPT ![w] = "check"]
    /\ UNCHANGED <<inputVars, mainVars, w_nonce, elapsed>>

\* Check comparing the worker's own best difficulty with min_difficulty.
CheckLocalBest(w) ==
    /\ w_pc[w] = "check"
    /\ IF ShouldStop(elapsed, cutoff_time, w_best_difficulty[w],
                     min_difficulty)
       THEN /\ w_pc' = [w_pc EXCEPT ![w] = "stopped"]
            /\ UNCHANGED w_nonce
       ELSE /\ w_nonce' = [w_nonce EXCEPT ![w] = (@ + 1) % NonceSpace]
            /\ w_pc' = [w_pc EXCEPT ![w] =
                          LoopHead((w_nonce[w] + 1) % NonceSpace,
                                   nonce_ranges[w].end)]
    /\ UNCHANGED <<inputVars, mainVars, w_best_nonce, w_best_difficulty,
                   w_best_hash, elapsed, global_best_difficulty,
                   global_total_hashes, hashed, late_attempts>>

\* The termination check, then the nonce increment and the loop condition.
Check(w) ==
    /\ w_pc[w] = "check"
    /\ IF ShouldStop(elapsed, cutoff_time, global_best_difficulty,
                     min_difficulty)
       THEN /\ w_pc' = [w_pc EXCEPT ![w] = "stopped"]
            /\ UNCHANGED w_nonce
       ELSE /\ w_nonce' = [w_nonce EXCEPT ![w] = (@ + 1) % NonceSpace]
            /\ w_pc' = [w_pc EXCEPT ![w] =
                          LoopHead((w_nonce[w] + 1) % NonceSpace,
                                   nonce_ranges[w].end)]
    /\ UNCHANGED <<inputVars, mainVars, w_best_nonce, w_best_difficulty,
                   w_best_hash, elapsed, global_best_difficulty,
                   global_total_hashes, hashed, late_attempts>>

\* A second of wall-clock time passes while some worker is still running.
\* Once elapsed >= cutoff_time further seconds change no comparison of the
\* code, so the clock is followed up to the cutoff.
Tick ==
    /\ elapsed < cutoff_time
    /\ \E w \in Workers : w_pc[w] \in Running
    /\ elapsed' = elapsed + 1
    /\ UNCHANGED <<inputVars, mainVars, localVars, w_pc,
                   global_best_difficulty, global_total_hashes, hashed,
                   late_attempts>>

\* Reduce replacing the triple on an equal difficulty too.
ReduceTieLast(acc, ret) ==
    IF ret.difficulty >= acc.difficulty THEN ret ELSE acc

\* Reduce taking the difficulty and leaving nonce and hash behind.
ReduceDifficultyOnly(acc, ret) ==
    IF ret.difficulty > acc.difficulty
    THEN [acc EXCEPT !.difficulty = ret.difficulty]
    ELSE acc

\* Reduce keeping the triple joined last.
ReduceLast(acc, ret) == ret

\* if difficulty > best_difficulty { best_* = ... }
Reduce(acc, ret) ==
    IF ret.difficulty > acc.difficulty THEN ret ELSE acc

\* for h in handles { if let Ok(..) = h.join() { ... } }
Join(i) ==
    /\ m_pc = "join"
    /\ join_idx = i
    /\ w_pc[i] \in Finished
    /\ LET acc == [nonce |-> best_nonce, difficulty |-> best_difficulty,
                   hash |-> best_hash]
           ret == [nonce |-> w_best_nonce[i],
                   difficulty |-> w_best_difficulty[i],
                   hash |-> w_best_hash[i]]
           new == IF w_pc[i] = "panicked" THEN acc ELSE Reduce(acc, ret)
       IN  /\ best_nonce' = new.nonce
           /\ best_difficulty' = new.difficulty
           /\ best_hash' = new.hash
    /\ join_idx' = i + 1
    /\ UNCHANGED <<inputVars, m_pc, solution, localVars, w_pc, elapsed,
                   global_best_difficulty, global_total_hashes, hashed,
                   late_attempts>>

\* Solution::new(best_hash.d, best_nonce.to_le_bytes())
Return ==
    /\ m_pc = "join"
    /\ join_idx = num_threads
    /\ m_pc' = "returned"
    /\ solution' = [d |-> best_hash, n |-> best_nonce]
    /\ UNCHANGED <<inputVars, join_idx, best_nonce, best_difficulty,
                   best_hash, localVars, w_pc, elapsed,
                   global_best_difficulty, global_total_hashes, hashed,
                   late_attempts>>

\* The next iteration of the loop of mine() when the proof and the config it
\* fetches are those of the previous round: find_hash_par runs again on the
\* same inputs.  The difficulty the previous search selected is kept.
NextRound ==
    /\ m_pc = "returned"
    /\ prev_difficulty = NoPrev
    /\ prev_difficulty' = best_difficulty
    /\ elapsed' = 0
    /\ global_best_difficulty' = 0
    /\ global_total_hashes' = 0
    /\ w_pc' = [w \in Workers |-> "spawned"]
    /\ w_nonce' = [w \in Workers |-> nonce_ranges[w].start]
    /\ w_best_nonce' = [w \in Workers |-> nonce_ranges[w].start]
    /\ w_best_difficulty' = [w \in Workers |-> 0]
    /\ w_best_hash' = [w \in Workers |-> DefaultHash]
    /\ hashed' = [w \in Workers |-> {}]
    /\ late_attempts' = [w \in Workers |-> 0]
    /\ m_pc' = "join"
    /\ join_idx' = 0
    /\ best_nonce' = 0
    /\ best_difficulty' = 0
    /\ best_hash' = DefaultHash
    /\ solution' = [d |-> DefaultHash, n |-> 0]
    /\ UNCHANGED <<challenge, cutoff_time, min_difficulty, num_threads,
                   core_ids, nonce_ranges, rangeVars, busVars, mineVars>>

\* ----------------------------------------------- the partition on its own
RECURSIVE Pow2(_)
Pow2(k) == IF k = 0 THEN 1 ELSE 2 * Pow2(k - 1)

InitRanges ==
    /\ r_max \in {Pow2(k) - 1 : k \in 2..MaxBits}
    /\ r_n \in 1..MaxCores
    /\ r_n <= r_max
    /\ r_ranges = <<>>

\* One element of (0..num_threads).map(..).collect()
MapRange ==
    /\ r_n > 0
    /\ Len(r_ranges) < r_n
    /\ r_ranges' = Append(r_ranges, NonceRange(r_max, r_n, Len(r_ranges)))
    /\ UNCHANGED <<r_max, r_n, searchVars, busVars, mineVars>>

\* ---------------------------------------------------------------- find_bus
Buses == 0..(BusCount - 1)

\* ore_api::consts::BUS_ADDRESSES
BUS_ADDRESSES == [i \in Buses |-> [bus |-> i]]

\* What get_multiple_accounts yields for one address: no account, an account
\* whose data is no Bus, or the Bus of that address.
AccountValues(i) ==
    {[kind |-> "none", id |-> i, rewards |-> 0],
     [kind |-> "bad", id |-> i, rewards |-> 0]}
    \cup {[kind |-> "bus", id |-> i, rewards |-> r] : r \in 0..MaxReward}

AccountLists ==
    {a \in [Buses -> UNION {AccountValues(i) : i \in Buses}] :
        \A i \in Buses : a[i] \in AccountValues(i)}

\* TopBusUpdate keeping the bus processed last.
TopBusUpdateLast(top, bus) ==
    [rewards |-> bus.rewards, address |-> BUS_ADDRESSES[bus.id]]

\* if bus.rewards > top_bus_lock.0 { *top_bus_lock = (bus.rewards, BUS_ADDRESSES[bus.id]) }
TopBusUpdate(top, bus) ==
    IF bus.rewards > top.rewards
    THEN [rewards |-> bus.rewards, address |-> BUS_ADDRESSES[bus.id]]
    ELSE top

InitBus ==
    /\ b_pc = "start"
    /\ fetch_ok = FALSE
    /\ accounts = <<>>
    /\ pending = {}
    /\ top_bus = NoBus
    /\ bus_result = NoBus.address

\* if let Ok(accounts) = get_multiple_accounts(&BUS_ADDRESSES).await
FetchAccounts ==
    /\ b_pc = "start"
    /\ \E a \in AccountLists : accounts' = a
    /\ fetch_ok' = TRUE
    /\ top_bus' = [rewards |-> 0, address |-> BUS_ADDRESSES[0]]
    /\ pending' = Buses
    /\ b_pc' = "process"
    /\ UNCHANGED <<bus_result, searchVars, rangeVars, mineVars>>

\* ProcessAccount giving up on the remaining accounts at an account that is
\* missing or is no Bus.
ProcessAccountAbort(j) ==
    /\ b_pc = "process"
    /\ j \in pending
    /\ top_bus' = IF accounts[j].kind = "bus"
                  THEN TopBusUpdate(top_bus, accounts[j])
                  ELSE top_bus
    /\ pending' = IF accounts[j].kind = "bus" THEN pending \ {j} ELSE {}
    /\ UNCHANGED <<b_pc, fetch_ok, accounts, bus_result, searchVars, rangeVars, mineVars>>

\* One future of for_each_concurrent; the futures complete in any order.
ProcessAccount(j) ==
    /\ b_pc = "process"
    /\ j \in pending
    /\ top_bus' = IF accounts[j].kind = "bus"
                  THEN TopBusUpdate(top_bus, accounts[j])
                  ELSE top_bus
    /\ pending' = pending \ {j}
    /\ UNCHANGED <<b_pc, fetch_ok, accounts, bus_result, searchVars, rangeVars, mineVars>>

\* return top_bus_lock.1
ReturnTopBus ==
    /\ b_pc = "process"
    /\ pending = {}
    /\ bus_result' = top_bus.address
    /\ b_pc' = "returned"
    /\ UNCHANGED <<fetch_ok, accounts, pending, top_bus, searchVars, rangeVars, mineVars>>

\* ReturnRandomBus returning the address top_bus held before the call.
ReturnRandomBusUnset ==
    /\ b_pc = "start"
    /\ bus_result' = top_bus.address
    /\ b_pc' = "returned"
    /\ UNCHANGED <<fetch_ok, accounts, pending, top_bus, searchVars, rangeVars, mineVars>>

\* The fetch failed: BUS_ADDRESSES[rand::thread_rng().gen_range(0..BUS_COUNT)]
ReturnRandomBus ==
    /\ b_pc = "start"
    /\ \E i \in Buses : bus_result' = BUS_ADDRESSES[i]
    /\ b_pc' = "returned"
    /\ UNCHANGED <<fetch_ok, accounts, pending, top_bus, searchVars, rangeVars, mineVars>>

\* -------------------------------------------------------------------- mine
\* The scaled i64 and u64.
I64_MAX == Pow2(TimeBits - 1) - 1
I64_MIN == 0 - Pow2(TimeBits - 1)
U64_MAX == Pow2(TimeBits) - 1

\* ore_api::consts::EPOCH_DURATION
EPOCH_DURATION == 60

\* i64::saturating_add, i64::saturating_sub
Saturate(x) == IF x > I64_MAX THEN I64_MAX ELSE IF x < I64_MIN THEN I64_MIN ELSE x
saturating_add(a, b) == Saturate(a + b)
saturating_sub(a, b) == Saturate(a - b)

\* buffer_time as i64, and (..) as u64
as_i64(u) == IF u > I64_MAX THEN u - Pow2(TimeBits) ELSE u
as_u64(i) == IF i < 0 THEN i + Pow2(TimeBits) ELSE i

\* The unix timestamps get_clock can yield, and the buffer times of the
\* command line: small ones and the ends of the i64 and u64 ranges.
Clocks == 0..(MaxTime + EPOCH_DURATION + 1)
BufferTimes == (0..MaxTime) \cup {5, I64_MAX, I64_MAX + 1, U64_MAX}

\* get_cutoff, for the clock it obtained or NoClock
get_cutoff(last, buffer_time, clock) ==
    IF clock = NoClock
    THEN 60
    ELSE LET left == saturating_sub(
                         saturating_sub(saturating_add(last, 60),
                                        as_i64(buffer_time)),
                         clock)
         IN  as_u64(IF left > 0 THEN left ELSE 0)

\* should_reset with a strict comparison.
should_reset_strict(last, clock) ==
    IF clock = NoClock
    THEN FALSE
    ELSE saturating_sub(saturating_add(last, EPOCH_DURATION), 5) < clock

\* should_reset, for the clock it obtained or NoClock
should_reset(last, clock) ==
    IF clock = NoClock
    THEN FALSE
    ELSE saturating_sub(saturating_add(last, EPOCH_DURATION), 5) <= clock

\* let num_threads = num_cpus::get(); the cores argument is not consulted
num_threads_of(available, cores) == available

InitMine ==
    /\ mine_pc = "start"
    /\ args_cores \in 1..(MaxThreads + 1)
    /\ args_buffer_time \in BufferTimes
    /\ cpus \in 1..MaxThreads
    /\ warned = FALSE
    /\ last_hash_at = 0
    /\ last_reset_at = 0
    /\ cutoff_clock = NoClock
    /\ round_cutoff = 0
    /\ spawned = 0
    /\ reset_clock = NoClock
    /\ reset_due = FALSE
    /\ ixs = <<>>
    /\ compute_budget = 0
    /\ submit_result = "none"
    /\ notify_result = "none"

argVars == <<args_cores, args_buffer_time, cpus>>
otherVars == <<searchVars, rangeVars, busVars>>

\* self.check_num_cores(args.cores): a warning and nothing else
CheckNumCores ==
    /\ mine_pc = "start"
    /\ warned' = (args_cores > cpus)
    /\ mine_pc' = "fetch"
    /\ UNCHANGED <<argVars, last_hash_at, last_reset_at, cutoff_clock,
                   round_cutoff, spawned, reset_clock, reset_due, ixs,
                   compute_budget, submit_result, notify_result, otherVars>>

\* The head of the loop: get_config and get_proof_with_authority
FetchRound ==
    /\ mine_pc = "fetch"
    /\ last_hash_at' \in 0..MaxTime
    /\ last_reset_at' \in 0..MaxTime
    /\ reset_due' = FALSE
    /\ ixs' = <<>>
    /\ compute_budget' = 0
    /\ submit_result' = "none"
    /\ notify_result' = "none"
    /\ mine_pc' = "cutoff"
    /\ UNCHANGED <<argVars, warned, cutoff_clock, round_cutoff, spawned,
                   reset_clock, otherVars>>

\* let cutoff_time = self.get_cutoff(proof, args.buffer_time).await
GetCutoff ==
    /\ mine_pc = "cutoff"
    /\ \E clock \in Clocks \cup {NoClock} :
          /\ cutoff_clock' = clock
          /\ round_cutoff' = get_cutoff(last_hash_at, args_buffer_time, clock)
    /\ mine_pc' = "search"
    /\ UNCHANGED <<argVars, warned, last_hash_at, last_reset_at, spawned,
                   reset_clock, reset_due, ixs, compute_budget, submit_result,
                   notify_result, otherVars>>

\* Self::find_hash_par(proof, cutoff_time, min_difficulty): the workers it
\* spawns; the cutoff and the clock of get_cutoff are used up.
FindHashPar ==
    /\ mine_pc = "search"
    /\ spawned' = num_threads_of(cpus, args_cores)
    /\ cutoff_clock' = NoClock
    /\ round_cutoff' = 0
    /\ mine_pc' = "build"
    /\ UNCHANGED <<argVars, warned, last_hash_at, last_reset_at, reset_clock,
                   reset_due, ixs, compute_budget, submit_result,
                   notify_result, otherVars>>

\* The instruction set: auth, and reset when should_reset holds and the
\* draw gen_range(0..100) is 0.
BuildInstructions ==
    /\ mine_pc = "build"
    /\ \E clock \in Clocks \cup {NoClock}, draw_is_zero \in BOOLEAN :
          LET due == should_reset(last_reset_at, clock)
              reset == due /\ draw_is_zero
          IN  /\ reset_clock' = clock
              /\ reset_due' = due
              /\ ixs' = IF reset THEN <<"auth", "reset">> ELSE <<"auth">>
              /\ compute_budget' = IF reset THEN 500000 + 100000 ELSE 500000
    /\ mine_pc' = "bus"
    /\ UNCHANGED <<argVars, warned, last_hash_at, last_reset_at, cutoff_clock,
                   round_cutoff, spawned, submit_result, notify_result,
                   otherVars>>

\* ixs.push(mine(.., self.find_bus().await, solution)); the clock of
\* should_reset is used up.
PushMine ==
    /\ mine_pc = "bus"
    /\ ixs' = Append(ixs, "mine")
    /\ reset_clock' = NoClock
    /\ mine_pc' = "submit"
    /\ UNCHANGED <<argVars, warned, last_hash_at, last_reset_at, cutoff_clock,
                   round_cutoff, spawned, reset_due, compute_budget,
                   submit_result, notify_result, otherVars>>

\* Submit leaving the loop when the submission fails.
SubmitStopOnError ==
    /\ mine_pc = "submit"
    /\ \E ok \in BOOLEAN :
          /\ submit_result' = IF ok THEN "ok" ELSE "err"
          /\ mine_pc' = IF ok THEN "notify" ELSE "exit"
    /\ UNCHANGED <<argVars, warned, last_hash_at, last_reset_at, cutoff_clock,
                   round_cutoff, spawned, reset_clock, reset_due, ixs,
                   compute_budget, notify_result, otherVars>>

\* match self.send_and_confirm(..).await: Ok goes on to the notification,
\* Err prints the error and ends the iteration.
Submit ==
    /\ mine_pc = "submit"
    /\ \E ok \in BOOLEAN :
          /\ submit_result' = IF ok THEN "ok" ELSE "err"
          /\ mine_pc' = IF ok THEN "notify" ELSE "fetch"
    /\ UNCHANGED <<argVars, warned, last_hash_at, last_reset_at, cutoff_clock,
                   round_cutoff, spawned, reset_clock, reset_due, ixs,
                   compute_budget, notify_result, otherVars>>

\* send_discord_webhook: a success status, another status, or a send error;
\* each is printed only.
Notify ==
    /\ mine_pc = "notify"
    /\ notify_result' \in {"delivered", "rejected", "failed"}
    /\ mine_pc' = "fetch"
    /\ UNCHANGED <<argVars, warned, last_hash_at, last_reset_at, cutoff_clock,
                   round_cutoff, spawned, reset_clock, reset_due, ixs,
                   compute_budget, submit_result, otherVars>>

\* ---------------------------------------------------------- specifications
Init == InitSearch /\ IdleRanges /\ IdleBus /\ IdleMine

Next ==
    \/ \E w \in Workers : Pin(w)
    \/ \E w \in Workers : Hash(w)
    \/ \E w \in Workers : Check(w)
    \/ Tick
    \/ \E i \in Workers : Join(i)
    \/ Return

Spec == Init /\ [][Next]_vars

\* The search run twice on the same inputs.
NextRounds == Next \/ NextRound

SpecRounds == Init /\ [][NextRounds]_vars

InitRangesOnly == InitRanges /\ IdleSearch /\ IdleBus /\ IdleMine

NextRanges == MapRange

SpecRanges == InitRangesOnly /\ [][NextRanges]_vars

NextBus ==
    \/ FetchAccounts
    \/ \E j \in Buses : ProcessAccount(j)
    \/ ReturnTopBus
    \/ ReturnRandomBus

InitBusOnly == InitBus /\ IdleSearch /\ IdleRanges /\ IdleMine

SpecBus == InitBusOnly /\ [][NextBus]_vars

InitMineOnly == InitMine /\ IdleSearch /\ IdleRanges /\ IdleBus

NextMine ==
    \/ CheckNumCores
    \/ FetchRound
    \/ GetCutoff
    \/ FindHashPar
    \/ BuildInstructions
    \/ PushMine
    \/ Submit
    \/ Notify

SpecMine == InitMineOnly /\ [][NextMine]_vars

\* The runtime keeps driving the loop of mine(): every call it awaits
\* returns.
FairSpecMine == SpecMine /\ WF_vars(NextMine)

\* ================================================================ claims
Max(S) == CHOOSE x \in S : \A y \in S : y <= x

Collected == r_n > 0 /\ Len(r_ranges) = r_n

Returned == {w \in Workers : w_pc[w] \in {"exhausted", "stopped"}}

Evaluated == UNION {hashed[w] : w \in Workers}

Assigned == UNION {RangeSet(nonce_ranges[w]) : w \in Workers}

QualifyingNonces == {x \in Nonces : challenge[x] >= min_difficulty}

\* C1: the collected ranges start at 0, each range starts where the previous
\* one ends, and their union is the whole nonce space 0..max.
C1_RangesCoverNonceSpace ==
    Collected =>
        /\ r_ranges[1].start = 0
        /\ \A k \in 1..(r_n - 1) : r_ranges[k].end = r_ranges[k + 1].start
        /\ UNION {RangeSet(r_ranges[k]) : k \in 1..r_n} = 0..r_max

\* C2: the ranges of one search are non-empty and pairwise disjoint, every
\* worker hashes only nonces of its own range, and no nonce is hashed by two
\* workers.
C2_RangesDisjoint ==
    /\ \A w \in Workers :
          /\ nonce_ranges[w].start < nonce_ranges[w].end
          /\ hashed[w] \subseteq RangeSet(nonce_ranges[w])
    /\ \A v \in Workers : \A w \in Workers :
          v # w => /\ RangeSet(nonce_ranges[v]) \cap RangeSet(nonce_ranges[w]) = {}
                   /\ hashed[v] \cap hashed[w] = {}

C2_Witness ==
    /\ m_pc = "returned"
    /\ \E v \in Workers : \E w \in Workers :
          v # w /\ Cardinality(hashed[v]) >= 2 /\ Cardinality(hashed[w]) >= 2

\* C3: once search has returned, the selected difficulty is the maximum of
\* the difficulties the workers returned (0 when no worker returned).
C3_ResultIsMaxOfWorkers ==
    m_pc = "returned" =>
        best_difficulty = Max({w_best_difficulty[w] : w \in Returned} \cup {0})

C3_Witness ==
    /\ m_pc = "returned"
    /\ \E v \in Returned : \E w \in Returned :
          /\ v < w
          /\ 0 < w_best_difficulty[v]
          /\ w_best_difficulty[v] < w_best_difficulty[w]
          /\ best_difficulty = w_best_difficulty[w]

\* C4: when exactly one nonce of the nonce space has a difficulty of at
\* least min_difficulty, search returns that nonce with its difficulty.
\* Stated for the searches whose workers all run and whose min_difficulty
\* is positive.
C4_UniqueQualifyingNonceReturned ==
    (/\ m_pc = "returned"
     /\ core_ids
     /\ min_difficulty > 0
     /\ Cardinality(QualifyingNonces) = 1) =>
        \A x \in QualifyingNonces :
            solution.n = x /\ best_difficulty = challenge[x]

\* C5: a worker leaves its termination check by stopping exactly when the
\* deadline has passed and the shared best is at least min_difficulty;
\* otherwise it goes on to the next nonce.  A worker only ever stops from
\* the termination check, with nonces of its range left.
C5_StopsOnlyOnSignal ==
    [][\A w \in Workers :
          /\ (w_pc[w] = "check" /\ w_pc'[w] # "check") =>
                IF elapsed >= cutoff_time
                   /\ global_best_difficulty >= min_difficulty
                THEN w_pc'[w] = "stopped" /\ w_nonce'[w] = w_nonce[w]
                ELSE /\ w_pc'[w] \in {"hash", "exhausted"}
                     /\ w_nonce'[w] = w_nonce[w] + 1
          /\ (w_pc[w] # "stopped" /\ w_pc'[w] = "stopped") =>
                /\ w_pc[w] = "check"
                /\ elapsed >= cutoff_time
                /\ global_best_difficulty >= min_difficulty
                /\ w_nonce[w] < nonce_ranges[w].end]_vars

C5_Witness ==
    /\ cutoff_time = 0
    /\ \E w \in Workers :
          /\ w_pc[w] = "stopped"
          /\ Cardinality(hashed[w]) >= 2
          /\ w_nonce[w] + 1 < nonce_ranges[w].end

\* C6: once the deadline has passed and the shared best is at least
\* min_difficulty, a worker starts at most one more nonce attempt, and a
\* worker that started one does not go on to exhaust its range.
C6_AtMostOneLateAttempt ==
    \A w \in Workers :
        /\ late_attempts[w] <= 1
        /\ w_pc[w] = "exhausted" => late_attempts[w] = 0
        /\ (StopSignal /\ w_pc[w] = "hash") => late_attempts[w] = 0

C6_Witness ==
    \E w \in Workers :
        /\ w_pc[w] = "stopped"
        /\ late_attempts[w] = 1
        /\ w_best_difficulty[w] < min_difficulty
        /\ w_nonce[w] + 1 < nonce_ranges[w].end

\* C7: a worker whose termination check is about to run, or has run, has
\* hashed the first nonce of its range.
C7_FirstNonceBeforeCheck ==
    \A w \in Workers :
        w_pc[w] \in {"check", "stopped", "exhausted"} =>
            nonce_ranges[w].start \in hashed[w]

C7_Witness ==
    /\ cutoff_time = 0
    /\ min_difficulty = 0
    /\ num_threads >= 2
    /\ \A w \in Workers :
          w_pc[w] = "stopped" /\ hashed[w] = {nonce_ranges[w].start}

\* C8: no step of a search lowers global_best_difficulty.
C8_GlobalBestMonotonic ==
    [][global_best_difficulty' >= global_best_difficulty]_vars

C8_Witness ==
    \E w \in Workers :
        /\ w_pc[w] = "check"
        /\ w_nonce[w] = w_best_nonce[w]
        /\ 0 < w_best_difficulty[w]
        /\ w_best_difficulty[w] < global_best_difficulty

\* C9 as claimed: a second search over the same challenge, thread count,
\* cutoff_time and min_difficulty selects the difficulty the first one
\* selected.  Stated for cutoff_time = 0, where the deadline has passed from
\* the start and two searches differ in the interleaving of the workers only.
C9_SameDifficultyEverySchedule ==
    (m_pc = "returned" /\ prev_difficulty # NoPrev /\ cutoff_time = 0) =>
        best_difficulty = prev_difficulty

\* C9 as amended: the selected difficulty is the maximum difficulty among
\* the nonces the workers evaluated; when every worker scanned its whole
\* range that is the maximum over the assigned ranges, whatever the
\* schedule, and when a worker stopped early it is at least min_difficulty.
C9_DifficultyOfEvaluatedNonces ==
    m_pc = "returned" =>
        /\ best_difficulty = Max({challenge[x] : x \in Evaluated} \cup {0})
        /\ (\A w \in Workers : w_pc[w] = "exhausted") =>
              best_difficulty = Max({challenge[x] : x \in Assigned} \cup {0})
        /\ (\E w \in Workers : w_pc[w] = "stopped") =>
              best_difficulty >= min_difficulty

C9_Witness ==
    /\ m_pc = "returned"
    /\ prev_difficulty # NoPrev
    /\ num_threads >= 2
    /\ \A w \in Workers : w_pc[w] = "exhausted"
    /\ best_difficulty > 0
    /\ best_difficulty = prev_difficulty

\* C10: when the fetch succeeds and every account is a Bus, find_bus
\* returns the address of a bus whose rewards are at least those of every
\* fetched bus.
C10_TopBusHasMaxRewards ==
    (b_pc = "returned" /\ fetch_ok
        /\ \A i \in Buses : accounts[i].kind = "bus") =>
        \E j \in Buses :
            /\ bus_result = BUS_ADDRESSES[j]
            /\ \A k \in Buses : accounts[j].rewards >= accounts[k].rewards

C10_Witness ==
    /\ b_pc = "returned"
    /\ fetch_ok
    /\ \A i \in Buses : accounts[i].kind = "bus"
    /\ \E j \in Buses : \E k \in Buses :
          /\ j > k
          /\ k > 0
          /\ bus_result = BUS_ADDRESSES[j]
          /\ accounts[j].rewards = accounts[k].rewards
          /\ accounts[0].rewards < accounts[j].rewards
\* C11: when the fetch of the accounts fails, find_bus returns one of the
\* fixed bus addresses.
C11_FallbackReturnsFixedBus ==
    (b_pc = "returned" /\ ~fetch_ok) =>
        \E i \in Buses : bus_result = BUS_ADDRESSES[i]

C11_Witness ==
    /\ b_pc = "returned"
    /\ ~fetch_ok
    /\ bus_result = BUS_ADDRESSES[BusCount - 1]

\* C15: when the core ids cannot be obtained or pinning fails, every worker
\* still scans its range and returns its triple to the reduction.
C15_PinningIsBestEffort ==
    m_pc = "returned" =>
        \A w \in Workers :
            /\ w_pc[w] \in {"exhausted", "stopped"}
            /\ nonce_ranges[w].start \in hashed[w]

Min(S) == CHOOSE x \in S : \A y \in S : x <= y

\* The first worker in reduction order among those that returned the
\* maximum difficulty.
FirstBest ==
    Min({w \in Returned :
            w_best_difficulty[w] = Max({w_best_difficulty[v] : v \in Returned})})

\* C17: a worker's best nonce is the lowest nonce it hashed that has the
\* worker's best difficulty, and search returns the triple of the first
\* worker, in reduction order, that returned the maximum difficulty.
C17_FirstEncounteredWins ==
    /\ \A w \in Workers :
          w_best_difficulty[w] > 0 =>
              w_best_nonce[w] =
                  Min({x \in hashed[w] : challenge[x] = w_best_difficulty[w]})
    /\ (m_pc = "returned" /\ Returned # {}) =>
          /\ best_nonce = w_best_nonce[FirstBest]
          /\ best_difficulty = w_best_difficulty[FirstBest]
          /\ best_hash = w_best_hash[FirstBest]
          /\ solution = [d |-> w_best_hash[FirstBest],
                         n |-> w_best_nonce[FirstBest]]

C17_Witness ==
    /\ m_pc = "returned"
    /\ \E v \in Returned : \E w \in Returned :
          /\ v < w
          /\ w_best_difficulty[v] = MaxDifficulty
          /\ w_best_difficulty[w] = MaxDifficulty
          /\ best_nonce = w_best_nonce[v]
          /\ best_nonce # w_best_nonce[w]

\* C18: processing an account that is missing or is no Bus leaves top_bus
\* unchanged, and when some fetched Bus has positive rewards find_bus returns
\* the address of one with the largest rewards among them.
C18_BadAccountsAreSkipped ==
    /\ [][\A j \in Buses :
             (b_pc = "process" /\ j \in pending /\ j \notin pending'
                 /\ accounts[j].kind # "bus") => top_bus' = top_bus]_vars
    /\ [](LET good == {j \in Buses :
                         accounts[j].kind = "bus" /\ accounts[j].rewards > 0}
          IN  (b_pc = "returned" /\ fetch_ok /\ good # {}) =>
                 \E j \in good :
                     /\ bus_result = BUS_ADDRESSES[j]
                     /\ \A k \in good :
                           accounts[j].rewards >= accounts[k].rewards)

C18_Witness ==
    /\ b_pc = "returned"
    /\ fetch_ok
    /\ accounts[0].kind = "none"
    /\ accounts[1].kind = "bad"
    /\ \E j \in Buses :
          /\ accounts[j].kind = "bus"
          /\ accounts[j].rewards > 0
          /\ bus_result = BUS_ADDRESSES[j]

\* C19: a worker at its termination check finds global_best_difficulty at
\* least its own best difficulty; global_best_difficulty never exceeds the
\* difficulties computed so far; and after the join it is the maximum of the
\* difficulties the workers returned.
C19_NoRaiseIsLost ==
    /\ \A w \in Workers :
          w_pc[w] = "check" => global_best_difficulty >= w_best_difficulty[w]
    /\ global_best_difficulty <= Max({challenge[x] : x \in Evaluated} \cup {0})
    /\ m_pc = "returned" =>
          global_best_difficulty =
              Max({w_best_difficulty[w] : w \in Returned} \cup {0})

C19_Witness ==
    /\ m_pc = "returned"
    /\ \E v \in Returned : \E w \in Returned :
          /\ 0 < w_best_difficulty[v]
          /\ w_best_difficulty[v] < w_best_difficulty[w]
          /\ global_best_difficulty = w_best_difficulty[w]

\* A triple is the initial one, or the hash of its nonce with that hash's
\* difficulty, the nonce being one worker w hashed inside its range.
UnitTriple(nonce, difficulty, hash, initial, w) ==
    \/ /\ difficulty = 0
       /\ hash = DefaultHash
       /\ nonce = initial
    \/ /\ difficulty > 0
       /\ nonce \in hashed[w]
       /\ nonce \in RangeSet(nonce_ranges[w])
       /\ challenge[nonce] = difficulty
       /\ hash = [nonce |-> nonce, difficulty |-> difficulty]

\* C20: the best triple of every worker and of the reduction is always the
\* initial triple or the nonce, hash and difficulty of one evaluated nonce;
\* search returns the nonce and hash of the reduction's triple, which is
\* nonce 0 with the default hash when no evaluated nonce has a difficulty
\* above 0.
C20_TripleUpdatedAsUnit ==
    /\ \A w \in Workers :
          UnitTriple(w_best_nonce[w], w_best_difficulty[w], w_best_hash[w],
                     nonce_ranges[w].start, w)
    /\ \/ best_difficulty = 0 /\ best_hash = DefaultHash /\ best_nonce = 0
       \/ \E w \in Workers :
             /\ best_difficulty > 0
             /\ UnitTriple(best_nonce, best_difficulty, best_hash, 0, w)
    /\ m_pc = "returned" =>
          /\ solution = [d |-> best_hash, n |-> best_nonce]
          /\ (\A x \in Evaluated : challenge[x] <= 0) =>
                solution = [d |-> DefaultHash, n |-> 0]

C20_Witness ==
    /\ m_pc = "returned"
    /\ num_threads >= 2
    /\ w_best_difficulty[0] > 0
    /\ best_difficulty > w_best_difficulty[0]
    /\ solution.n \in RangeSet(nonce_ranges[1])
\* C12: with the chain clock at hand should_reset is true exactly when
\* now >= last_reset_at + EPOCH_DURATION - 5, and a round's instructions
\* hold a reset only when should_reset was true in that round.
C12_ResetOnlyWhenDue ==
    /\ (mine_pc = "bus" /\ reset_clock # NoClock) =>
          (reset_due <=> reset_clock >= last_reset_at + EPOCH_DURATION - 5)
    /\ (\E k \in 1..Len(ixs) : ixs[k] = "reset") => reset_due

C12_Witness ==
    /\ mine_pc = "bus"
    /\ reset_clock = last_reset_at + EPOCH_DURATION - 5
    /\ reset_due
    /\ ixs = <<"auth", "reset">>

\* C13: the cutoff of a round is max(0, last_hash_at + 60 - buffer_time - now)
\* when the chain clock is at hand, and 60 when it is not.
C13_CutoffFormula ==
    mine_pc = "search" =>
        IF cutoff_clock = NoClock
        THEN round_cutoff = 60
        ELSE LET left == last_hash_at + 60 - args_buffer_time - cutoff_clock
             IN  round_cutoff = IF left > 0 THEN left ELSE 0

\* C14: search runs with the number of logical cores capped by the cores
\* argument, and a cores argument above the available count is warned about.
C14_WorkersCappedByCores ==
    mine_pc = "build" =>
        /\ spawned = IF args_cores < cpus THEN args_cores ELSE cpus
        /\ args_cores > cpus => warned

\* C16: a notification is sent only after a successful submission; a failed
\* submission ends the iteration without one; after either outcome, and
\* after any outcome of the notification, the loop is back at its head, and
\* it comes back there forever.
C16_LoopNeverStops ==
    /\ [](notify_result # "none" => submit_result = "ok")
    /\ [][(mine_pc = "submit" /\ mine_pc' # "submit") =>
             IF submit_result' = "ok"
             THEN mine_pc' = "notify"
             ELSE /\ submit_result' = "err"
                  /\ mine_pc' = "fetch"
                  /\ notify_result' = "none"]_vars
    /\ [][(mine_pc = "notify" /\ mine_pc' # "notify") =>
             mine_pc' = "fetch" /\ notify_result' # "none"]_vars
    /\ (mine_pc = "submit") ~> (mine_pc = "fetch")
    /\ []<>(mine_pc = "fetch")

C16_Witness ==
    /\ mine_pc = "fetch"
    /\ submit_result = "ok"
    /\ notify_result = "failed"
    /\ spawned > 0
====
